---- MODULE Spec2Model ----
(***************************************************************************)
(* Material REST API (controllers/main.py) over the material and supplier  *)
(* models (model/material.py, model/supplier.py).                          *)
(*                                                                         *)
(* State: the stored materials, the id sequence, the last request and the  *)
(* response it got.  One action per endpoint; each action is the whole     *)
(* handler, persistence calls included.  verdict holds the tuple a direct  *)
(* call of validate_payload returned.                                      *)
(***************************************************************************)
EXTENDS Integers, Sequences, FiniteSets, TLC

VARIABLES materials, nextId, req, resp, deleted, verdict

vars == <<materials, nextId, req, resp, deleted, verdict>>

(***************************************************************************)
(* Bounds.                                                                 *)
(***************************************************************************)
\* Ids the sequence may hand out: create is disabled once it is exhausted.
MaxId == 2

(***************************************************************************)
(* JSON values as Python sees them: a kind and a payload.                  *)
(***************************************************************************)
PyStr(s) == [k |-> "str", s |-> s, n |-> 0]
PyInt(n) == [k |-> "int", s |-> "", n |-> n]
PyFloat(n) == [k |-> "float", s |-> "", n |-> n]
PyBool(b) == [k |-> "bool", s |-> "", n |-> IF b THEN 1 ELSE 0]
Null == [k |-> "null", s |-> "", n |-> 0]
\* Marks a key that is not in the dict (`field in data` is false).
Absent == [k |-> "absent", s |-> "", n |-> 0]

Has(data, f) == data[f].k # "absent"

\* dict.get(f): None when the key is absent.
Get(data, f) == IF Has(data, f) THEN data[f] ELSE Null

\* Python truthiness of a JSON value.
Truthy(v) ==
    CASE v.k = "str" -> v.s # ""
      [] v.k \in {"int", "float", "bool"} -> v.n # 0
      [] OTHER -> FALSE

\* isinstance(v, types): bool is a subclass of int.
IsInstance(v, types) ==
    \/ v.k \in types
    \/ v.k = "bool" /\ "int" \in types

Digits == <<"0", "1", "2", "3", "4", "5", "6", "7", "8", "9">>

RECURSIVE NatToStr(_)
NatToStr(n) ==
    IF n < 10 THEN Digits[n + 1]
    ELSE NatToStr(n \div 10) \o Digits[(n % 10) + 1]

\* str(n) for an integer.
IntToStr(n) == IF n < 0 THEN "-" \o NatToStr(-n) ELSE NatToStr(n)

(***************************************************************************)
(* The field spec of the controller and the model's declarations.          *)
(***************************************************************************)
\* type_specs, in dict order.
Fields == <<"name", "code", "type", "buy_price", "supplier_id">>

FieldSet == {Fields[i] : i \in 1..Len(Fields)}

type_specs ==
    [name        |-> [type |-> {"str"}, is_selection |-> FALSE,
                      type_repr |-> "<class 'str'>"],
     code        |-> [type |-> {"str", "int"}, is_selection |-> FALSE,
                      type_repr |-> "(<class 'str'>, <class 'int'>)"],
     type        |-> [type |-> {"str"}, is_selection |-> TRUE,
                      type_repr |-> "<class 'str'>"],
     buy_price   |-> [type |-> {"int", "float"}, is_selection |-> FALSE,
                      type_repr |-> "(<class 'int'>, <class 'float'>)"],
     supplier_id |-> [type |-> {"int"}, is_selection |-> FALSE,
                      type_repr |-> "<class 'int'>"]]

\* Mutant of allowed_filter: every query key filters.
allowed_filter_any == {"type", "name"}

allowed_filter == {"type"}

\* Material.type selection values.
Selection == {"fabric", "leather", "cotton"}

\* The price floor of Material._check_buy_price and of the handlers.
MinBuyPrice == 100

\* The supplier table: no endpoint changes it.  id -> name.
suppliers == (1 :> "Test Supplier")

(***************************************************************************)
(* json_response                                                           *)
(***************************************************************************)
NoData == [kind |-> "none", rows |-> <<>>, message |-> ""]
NoError == [code |-> 0, message |-> "None"]

\* Mutant of json_response: a failure is always a 400.
json_response_always_400(success, data, error_code, error_message, request_method) ==
    LET status_code ==
            IF ~success THEN 400
            ELSE IF request_method = "POST" THEN 201
            ELSE 200
    IN [success |-> success,
        data |-> data,
        status_code |-> status_code,
        error |-> IF success THEN NoError
                  ELSE [code |-> IF error_code # 0 THEN error_code ELSE status_code,
                        message |-> error_message]]

\* error_code 0 stands for None (both are falsy in `error_code or 400`).
json_response(success, data, error_code, error_message, request_method) ==
    LET status_code ==
            IF ~success THEN (IF error_code # 0 THEN error_code ELSE 400)
            ELSE IF request_method = "POST" THEN 201
            ELSE 200
    IN [success |-> success,
        data |-> data,
        status_code |-> status_code,
        error |-> IF success THEN NoError
                  ELSE [code |-> IF error_code # 0 THEN error_code ELSE status_code,
                        message |-> error_message]]

Failure(code, message) == json_response(FALSE, NoData, code, message, "")

(***************************************************************************)
(* validate_payload / validate_selection_field                             *)
(***************************************************************************)
Valid == [ok |-> TRUE, msg |-> "None", metadata |-> FALSE]

\* Mutant of validate_selection_field: an empty value is looked up as well.
validate_selection_field_no_bypass(field_name, value_to_check) ==
    IF value_to_check.s \notin Selection
    THEN [ok |-> FALSE,
          msg |-> "Invalid value '" \o value_to_check.s \o "' for field '"
                  \o field_name \o "' in model 'material.material'",
          metadata |-> TRUE]
    ELSE [ok |-> TRUE, msg |-> "None", metadata |-> TRUE]

\* metadata: whether fields_get was called.
validate_selection_field(field_name, value_to_check) ==
    IF ~Truthy(value_to_check) THEN Valid
    ELSE IF value_to_check.s \notin Selection
         THEN [ok |-> FALSE,
               msg |-> "Invalid value '" \o value_to_check.s \o "' for field '"
                       \o field_name \o "' in model 'material.material'",
               metadata |-> TRUE]
         ELSE [ok |-> TRUE, msg |-> "None", metadata |-> TRUE]

RECURSIVE ValidateFrom(_, _)
ValidateFrom(data, i) ==
    IF i > Len(Fields) THEN Valid
    ELSE LET field == Fields[i]
             rules == type_specs[field]
             rest == ValidateFrom(data, i + 1)
         IN IF Has(data, field) /\ data[field].k # "null"
            THEN IF ~IsInstance(data[field], rules.type)
                 THEN [ok |-> FALSE,
                       msg |-> "Field '" \o field \o "' must be of type '"
                               \o rules.type_repr \o "'",
                       metadata |-> FALSE]
                 ELSE IF rules.is_selection
                      THEN LET sel == validate_selection_field(field, data[field])
                           IN IF ~sel.ok THEN sel
                              ELSE [rest EXCEPT !.metadata = @ \/ sel.metadata]
                      ELSE rest
            ELSE rest

validate_payload(data) == ValidateFrom(data, 1)

(***************************************************************************)
(* The persistence layer as the models declare it: Char, Selection, Float  *)
(* and Many2one columns, all required (NOT NULL), UNIQUE(code), and the    *)
(* buy_price constraint.                                                   *)
(***************************************************************************)
Col(s, n) == [null |-> FALSE, bad |-> FALSE, s |-> s, n |-> n]
NullCol == [null |-> TRUE, bad |-> FALSE, s |-> "", n |-> 0]
BadCol == [null |-> FALSE, bad |-> TRUE, s |-> "", n |-> 0]

\* fields.Char: None and False are stored as NULL, anything else as its text.
CharColumn(v) ==
    CASE v.k = "str" -> Col(v.s, 0)
      [] v.k = "int" -> Col(IntToStr(v.n), 0)
      [] v.k = "float" -> Col(IntToStr(v.n) \o ".0", 0)
      [] v.k = "bool" -> IF v.n = 0 THEN NullCol ELSE Col("True", 0)
      [] OTHER -> NullCol

\* fields.Selection: a declared value, NULL for a falsy one, else ValueError.
SelectionColumn(v) ==
    IF v.k = "str" /\ v.s \in Selection THEN Col(v.s, 0)
    ELSE IF ~Truthy(v) THEN NullCol
    ELSE BadCol

\* fields.Float: float(value or 0.0).
FloatColumn(v) ==
    CASE v.k \in {"int", "float", "bool"} -> Col("", v.n)
      [] v.k = "str" -> IF v.s = "" THEN Col("", 0) ELSE BadCol
      [] OTHER -> Col("", 0)

\* fields.Many2one: an id, NULL for a falsy one.
Many2oneColumn(v) ==
    IF v.k = "int" /\ v.n # 0 THEN Col("", v.n) ELSE NullCol

ToColumn(field, v) ==
    CASE field \in {"name", "code"} -> CharColumn(v)
      [] field = "type" -> SelectionColumn(v)
      [] field = "buy_price" -> FloatColumn(v)
      [] field = "supplier_id" -> Many2oneColumn(v)

RowOf(cols) ==
    [name |-> cols["name"].s,
     code |-> cols["code"].s,
     type |-> cols["type"].s,
     buy_price |-> cols["buy_price"].n,
     supplier_id |-> cols["supplier_id"].n]

ColsOf(row) ==
    [f \in FieldSet |->
        IF f \in {"buy_price", "supplier_id"} THEN Col("", row[f]) ELSE Col(row[f], 0)]

\* _sql_constraints: UNIQUE(code) against every other row.
code_unique(store, id, code) ==
    \A other \in DOMAIN store : other # id => store[other].code # code

\* @api.constrains('buy_price')
_check_buy_price(row) == ~(row.buy_price < MinBuyPrice)

\* What the database refuses: a NULL in a required column, a duplicate code,
\* a supplier_id without its supplier row.
IntegrityOk(store, id, cols) ==
    /\ \A f \in FieldSet : ~cols[f].null
    /\ code_unique(store, id, cols["code"].s)
    /\ cols["supplier_id"].n \in DOMAIN suppliers

\* The outcome of a create or write with these column values.  The constraint
\* method reads the record it is given (record.buy_price), so it runs on the
\* row as written; the handlers catch what it raises and return normally, and
\* nothing in them undoes the write.  UNIQUE(code) and NOT NULL are refused by
\* the database itself, which is not a ValidationError.
\*   "none"       the row is written
\*   "error"      a value the field refuses (ValueError)
\*   "integrity"  the database refuses the row (psycopg2.IntegrityError)
\*   "validation" the row is written and _check_buy_price raises ValidationError
\*   "both"       the row breaks the database's rules and the price constraint
OrmOutcome(store, id, cols, checked) ==
    IF \E f \in FieldSet : cols[f].bad THEN "error"
    ELSE LET sql == IntegrityOk(store, id, cols)
             chk == ~checked \/ _check_buy_price(RowOf(cols))
         IN CASE sql /\ chk -> "none"
              [] sql /\ ~chk -> "validation"
              [] ~sql /\ chk -> "integrity"
              [] OTHER -> "both"

\* read(['id', 'name', 'code', 'type', 'buy_price', 'supplier_id']): a many2one
\* reads as the pair (id, display name).
read(store, id) ==
    [id |-> id,
     name |-> store[id].name,
     code |-> store[id].code,
     type |-> store[id].type,
     buy_price |-> store[id].buy_price,
     supplier_id |-> <<store[id].supplier_id, suppliers[store[id].supplier_id]>>]

RECURSIVE SortedIds(_)
SortedIds(ids) ==
    IF ids = {} THEN <<>>
    ELSE LET least == CHOOSE i \in ids : \A j \in ids : i <= j
         IN <<least>> \o SortedIds(ids \ {least})

\* search_read(domain, fields): the rows matching every (key, '=', value) leaf,
\* in id order.
search_read(store, domain) ==
    LET hits == {id \in DOMAIN store :
                    \A key \in DOMAIN domain : store[id][key] = domain[key]}
        ids == SortedIds(hits)
    IN [i \in 1..Len(ids) |-> read(store, ids[i])]

(***************************************************************************)
(* Responses.  list and delete build a Response with an explicit status;   *)
(* create and update are type='json' routes: the handler's dict is the     *)
(* "result" of a JSON-RPC reply whose HTTP status is 200.                   *)
(***************************************************************************)
NoBody == [success |-> FALSE, data |-> NoData, status_code |-> 0, error |-> NoError]

\* Response(json.dumps(payload), status=status)
Response(payload, status) == [raised |-> FALSE, body |-> payload, http |-> status]

\* A dict returned from a type='json' route.
JsonResult(payload) == [raised |-> FALSE, body |-> payload, http |-> 200]

\* The exception left the handler: the handler built no response.
Raised == [raised |-> TRUE, body |-> NoBody, http |-> 0]

Result(r, m, n) == [resp |-> r, materials |-> m, nextId |-> n]

\* `not data` for a dict.
IsEmpty(data) == \A f \in FieldSet : ~Has(data, f)

\* Mutant of MissingFields: the list of required fields stops before supplier_id.
MissingFieldsNoSupplier(data) ==
    SelectSeq(SubSeq(Fields, 1, Len(Fields) - 1), LAMBDA f : ~Has(data, f))

MissingFields(data) == SelectSeq(Fields, LAMBDA f : ~Has(data, f))

RECURSIVE Join(_)
Join(seq) ==
    IF Len(seq) = 0 THEN ""
    ELSE IF Len(seq) = 1 THEN seq[1]
    ELSE seq[1] \o ", " \o Join(Tail(seq))

\* supplier_obj.search([('id', '=', supplier_id)]) is not empty.
SupplierFound(v) == v.k = "int" /\ v.n \in DOMAIN suppliers

ServerError(detail) ==
    Failure(500, "An unexpected server error occurred: " \o detail)

IntegrityMessage(store, id, cols) ==
    IF \E f \in FieldSet : cols[f].null
    THEN "null value violates not-null constraint"
    ELSE IF ~code_unique(store, id, cols["code"].s)
    THEN "duplicate key value violates unique constraint material_material_code_unique"
    ELSE "insert or update violates foreign key constraint"

PriceMessage == "Buy price cannot be less than 100"

\* Mutant of CreateBelowFloor: the floor itself is refused.
CreateAtOrBelowFloor(data) == Get(data, "buy_price").n <= MinBuyPrice

\* create_material: the handler's own price-floor test.
CreateBelowFloor(data) == Get(data, "buy_price").n < MinBuyPrice

create_material(store, nid, data, f) ==
    LET checked == validate_payload(data)
        missing_fields == MissingFields(data)
        cols == [fl \in FieldSet |-> ToColumn(fl, Get(data, fl))]
        outcome == OrmOutcome(store, nid, cols, TRUE)
        inserted == (nid :> RowOf(cols)) @@ store
    IN  IF IsEmpty(data)
        THEN Result(JsonResult(Failure(400, "No data provided")), store, nid)
        ELSE IF checked.metadata /\ f = "fields_get"
        THEN Result(Raised, store, nid)
        ELSE IF ~checked.ok
        THEN Result(JsonResult(Failure(400, checked.msg)), store, nid)
        ELSE IF Len(missing_fields) > 0
        THEN Result(JsonResult(Failure(400, "missing fields in request: "
                                            \o Join(missing_fields))), store, nid)
        ELSE IF ~Truthy(Get(data, "buy_price"))
        THEN Result(JsonResult(Failure(400,
                        "Buy price is required and cannot be null")), store, nid)
        ELSE IF CreateBelowFloor(data)
        THEN Result(JsonResult(Failure(400, PriceMessage)), store, nid)
        ELSE IF f = "search_supplier"
        THEN Result(Raised, store, nid)
        ELSE IF ~SupplierFound(Get(data, "supplier_id"))
        THEN Result(JsonResult(Failure(404, "Supplier not found")), store, nid)
        \* try:
        ELSE IF f = "create"
        THEN Result(JsonResult(ServerError("create")), store, nid)
        ELSE CASE outcome = "error" ->
                    Result(JsonResult(ServerError("Wrong value")), store, nid)
               [] outcome \in {"integrity", "both"} ->
                    \* the database refuses the INSERT
                    Result(JsonResult(ServerError(IntegrityMessage(store, nid, cols))),
                           store, nid)
               [] outcome = "validation" ->
                    \* the row is inserted, the constraint raises, the handler
                    \* answers and the request's transaction is committed
                    Result(JsonResult(Failure(400, PriceMessage)), inserted, nid + 1)
               [] f = "read" ->
                    Result(JsonResult(ServerError("read")), inserted, nid + 1)
               [] f = "read_sql" ->
                    Result(JsonResult(ServerError("read")), store, nid)
               [] OTHER ->
                    Result(JsonResult(json_response(TRUE,
                               [kind |-> "list", rows |-> <<read(inserted, nid)>>,
                                message |-> ""],
                               0, "None", "POST")),
                           inserted, nid + 1)

\* update_material: the handler's own price-floor test.
UpdateBelowFloor(data) ==
    Truthy(Get(data, "buy_price")) /\ Get(data, "buy_price").n < MinBuyPrice

\* update_material: whether the supplier is looked up at all.
UpdateChecksSupplier(data) == Truthy(Get(data, "supplier_id"))

\* material_obj.search([('id', '=', material_id)]) is not empty.
MaterialFound(store, material_id) == material_id \in DOMAIN store

\* material.write(data): the columns of the row once the values are written.
WriteCols(store, material_id, data) ==
    [fl \in FieldSet |->
        IF Has(data, fl) THEN ToColumn(fl, data[fl])
        ELSE ColsOf(store[material_id])[fl]]

\* The constraint method runs when buy_price is among the written values.
WriteOutcome(store, material_id, data) ==
    OrmOutcome(store, material_id, WriteCols(store, material_id, data),
               Has(data, "buy_price"))

\* update_material once the target is found.  `order` is which of the two
\* refusals comes first when a written row breaks both the database's rules
\* and the price constraint: the UPDATE ("sql") or the constraint method
\* ("check").
update_found(store, nid, material_id, data, f, order) ==
    LET checked == validate_payload(data)
        cols == WriteCols(store, material_id, data)
        outcome == WriteOutcome(store, material_id, data)
        written == [store EXCEPT ![material_id] = RowOf(cols)]
    IN  IF IsEmpty(data)
        THEN Result(JsonResult(Failure(400, "No data provided")), store, nid)
        ELSE IF checked.metadata /\ f = "fields_get"
        THEN Result(Raised, store, nid)
        ELSE IF ~checked.ok
        THEN Result(JsonResult(Failure(400, checked.msg)), store, nid)
        ELSE IF UpdateBelowFloor(data)
        THEN Result(JsonResult(Failure(400, PriceMessage)), store, nid)
        ELSE IF UpdateChecksSupplier(data) /\ f = "search_supplier"
        THEN Result(Raised, store, nid)
        ELSE IF UpdateChecksSupplier(data) /\ ~SupplierFound(Get(data, "supplier_id"))
        THEN Result(JsonResult(Failure(404, "Supplier not found")), store, nid)
        \* try:
        ELSE IF f = "write"
        THEN Result(JsonResult(ServerError("write")), store, nid)
        ELSE CASE outcome = "error" ->
                    Result(JsonResult(ServerError("Wrong value")), store, nid)
               [] outcome = "integrity" \/ (outcome = "both" /\ order = "sql") ->
                    Result(JsonResult(ServerError(
                               IntegrityMessage(store, material_id, cols))), store, nid)
               [] outcome = "both" ->
                    \* the constraint raises first and the handler answers; the
                    \* database then refuses the pending UPDATE
                    Result(JsonResult(Failure(400, PriceMessage)), store, nid)
               [] outcome = "validation" ->
                    \* the values are written, the constraint raises, the handler
                    \* answers and the request's transaction is committed
                    Result(JsonResult(Failure(400, PriceMessage)), written, nid)
               [] f = "read" ->
                    Result(JsonResult(ServerError("read")), written, nid)
               [] f = "read_sql" ->
                    Result(JsonResult(ServerError("read")), store, nid)
               [] OTHER ->
                    Result(JsonResult(json_response(TRUE,
                               [kind |-> "dict", rows |-> <<read(written, material_id)>>,
                                message |-> ""],
                               0, "None", "PUT")),
                           written, nid)

\* Mutant of update_material: the payload is examined before the target is
\* resolved.
update_material_payload_first(store, nid, material_id, data, f, order) ==
    IF IsEmpty(data)
    THEN Result(JsonResult(Failure(400, "No data provided")), store, nid)
    ELSE IF f = "search_material"
    THEN Result(Raised, store, nid)
    ELSE IF ~MaterialFound(store, material_id)
    THEN Result(JsonResult(Failure(404, "Material not found")), store, nid)
    ELSE update_found(store, nid, material_id, data, f, order)

update_material(store, nid, material_id, data, f, order) ==
    IF f = "search_material"
    THEN Result(Raised, store, nid)
    ELSE IF ~MaterialFound(store, material_id)
    THEN Result(JsonResult(Failure(404, "Material not found")), store, nid)
    ELSE update_found(store, nid, material_id, data, f, order)

\* Mutant of delete_material: success is answered without the unlink.
delete_material_no_unlink(store, nid, material_id, f) ==
    IF f = "search_material"
    THEN Result(Raised, store, nid)
    ELSE IF ~MaterialFound(store, material_id)
    THEN Result(Response(Failure(404, "Material not found"), 404), store, nid)
    ELSE Result(Response(json_response(TRUE,
                    [kind |-> "dict", rows |-> <<>>,
                     message |-> "Material deleted successfully"],
                    0, "None", ""), 200),
                store, nid)

delete_material(store, nid, material_id, f) ==
    IF f = "search_material"
    THEN Result(Raised, store, nid)
    ELSE IF ~MaterialFound(store, material_id)
    THEN Result(Response(Failure(404, "Material not found"), 404), store, nid)
    \* try:
    ELSE IF f = "unlink"
    THEN Result(Response(ServerError("unlink"), 500), store, nid)
    ELSE Result(Response(json_response(TRUE,
                    [kind |-> "dict", rows |-> <<>>,
                     message |-> "Material deleted successfully"],
                    0, "None", ""), 200),
                [id \in DOMAIN store \ {material_id} |-> store[id]], nid)

\* kwargs maps every query key to its value, or to Absent.
list_materials(store, nid, kwargs, f) ==
    LET keys == {key \in DOMAIN kwargs : Has(kwargs, key)} \cap allowed_filter
        domain == [key \in keys |-> kwargs[key].s]
    IN  IF f = "search_read"
        THEN Result(Raised, store, nid)
        ELSE Result(Response(json_response(TRUE,
                        [kind |-> "list", rows |-> search_read(store, domain),
                         message |-> ""],
                        0, "None", ""), 200),
                    store, nid)

(***************************************************************************)
(* Requests.                                                               *)
(***************************************************************************)
\* Values a well-formed request carries, and values it should not.
GoodValues ==
    [name        |-> {PyStr("A")},
     code        |-> {PyStr("X"), PyInt(5)},
     type        |-> {PyStr("fabric"), PyStr("leather")},
     buy_price   |-> {PyInt(100)},
     supplier_id |-> {PyInt(1)}]

OddValues ==
    [name        |-> {PyInt(7), Null},
     code        |-> {},
     type        |-> {PyStr("silk")},
     buy_price   |-> {PyInt(-5), PyInt(0), PyFloat(50)},
     supplier_id |-> {PyInt(0), PyInt(9)}]

AllPayloads ==
    [name        : GoodValues["name"] \cup OddValues["name"] \cup {Absent},
     code        : GoodValues["code"] \cup OddValues["code"] \cup {Absent},
     type        : GoodValues["type"] \cup OddValues["type"] \cup {Absent},
     buy_price   : GoodValues["buy_price"] \cup OddValues["buy_price"] \cup {Absent},
     supplier_id : GoodValues["supplier_id"] \cup OddValues["supplier_id"] \cup {Absent}]

\* The keys of a payload that are missing or carry an odd value.
Flaws(data) == {fl \in FieldSet : data[fl] \notin GoodValues[fl]}

Keys(data) == {fl \in FieldSet : Has(data, fl)}

AtMostOne(S) == \A x, y \in S : x = y

\* The payload the flawed ones are variations of.
Base ==
    [name |-> PyStr("A"), code |-> PyStr("X"), type |-> PyStr("fabric"),
     buy_price |-> PyInt(100), supplier_id |-> PyInt(1)]

\* The request bodies: the well-formed payloads, Base with one key flawed, and
\* the payloads of at most one key (the empty one among them).
Payloads ==
    {data \in AllPayloads :
        \/ Flaws(data) = {}
        \/ AtMostOne(Keys(data))
        \/ /\ AtMostOne(Flaws(data))
           /\ \A fl \in FieldSet \ Flaws(data) : data[fl] = Base[fl]}

\* Path ids: every id the sequence can hand out, and one it never does.
Ids == 1..(MaxId + 1)

\* Query strings: "type" is filterable, "name" is not.
Queries ==
    [type : {PyStr("fabric"), PyStr("leather"), PyStr("silk"), Absent},
     name : {PyStr("A"), PyStr("B"), Absent}]

NoPayload == [fl \in FieldSet |-> Absent]
NoQuery == [type |-> Absent, name |-> Absent]

\* The order matters only to a write that breaks both kinds of rule.
Orders(store, material_id, data) ==
    IF MaterialFound(store, material_id)
       /\ WriteOutcome(store, material_id, data) = "both"
    THEN {"sql", "check"}
    ELSE {"sql"}

(***************************************************************************)
(* Actions: one per endpoint.                                              *)
(***************************************************************************)
\* No direct call of validate_payload has returned yet.
NoVerdict == [done |-> FALSE, ok |-> TRUE, msg |-> "None"]

Init ==
    /\ materials = <<>>
    /\ nextId = 1
    /\ req = [op |-> "none", id |-> 0, data |-> NoPayload, kwargs |-> NoQuery,
              fault |-> "none"]
    /\ resp = Response(NoBody, 0)
    /\ deleted = {}
    /\ verdict = NoVerdict

Apply(out) ==
    /\ resp' = out.resp
    /\ materials' = out.materials
    /\ nextId' = out.nextId
    /\ UNCHANGED verdict

Create(data, f) ==
    LET out == create_material(materials, nextId, data, f)
    IN  /\ out.nextId <= MaxId + 1
        /\ req' = [op |-> "create", id |-> 0, data |-> data, kwargs |-> NoQuery,
                   fault |-> f]
        /\ Apply(out)
        /\ UNCHANGED deleted

Update(material_id, data, f, order) ==
    LET out == update_material(materials, nextId, material_id, data, f, order)
    IN  /\ req' = [op |-> "update", id |-> material_id, data |-> data,
                   kwargs |-> NoQuery, fault |-> f]
        /\ Apply(out)
        /\ UNCHANGED deleted

Delete(material_id, f) ==
    LET out == delete_material(materials, nextId, material_id, f)
    IN  /\ req' = [op |-> "delete", id |-> material_id, data |-> NoPayload,
                   kwargs |-> NoQuery, fault |-> f]
        /\ Apply(out)
        \* history: the ids a delete has answered with success
        /\ deleted' = IF out.resp.body.success THEN deleted \cup {material_id}
                      ELSE deleted

List(kwargs, f) ==
    LET out == list_materials(materials, nextId, kwargs, f)
    IN  /\ req' = [op |-> "list", id |-> 0, data |-> NoPayload, kwargs |-> kwargs,
                   fault |-> f]
        /\ Apply(out)
        /\ UNCHANGED deleted

\* The persistence layer answers every call.
Next ==
    \/ \E data \in Payloads : Create(data, "none")
    \/ \E material_id \in Ids, data \in Payloads :
            \E order \in Orders(materials, material_id, data) :
                Update(material_id, data, "none", order)
    \/ \E material_id \in Ids : Delete(material_id, "none")
    \/ \E kwargs \in Queries : List(kwargs, "none")

Spec == Init /\ [][Next]_vars

(***************************************************************************)
(* The same endpoints over a persistence layer whose calls may fault.  A   *)
(* fault names the call that raises; it has an effect only on a request    *)
(* that reaches that call.  "read" is a fault that leaves the request's    *)
(* transaction usable (it is committed), "read_sql" one that aborts it.    *)
(***************************************************************************)
CreateFaults == {"fields_get", "search_supplier", "create", "read", "read_sql"}
UpdateFaults == {"search_material", "fields_get", "search_supplier", "write",
                 "read", "read_sql"}
DeleteFaults == {"search_material", "unlink"}
ListFaults == {"search_read"}

\* Faults are injected into requests that would otherwise go through.
FaultPayloads == {data \in Payloads : Flaws(data) = {}}

NextFault ==
    \/ \E data \in Payloads : Create(data, "none")
    \/ \E data \in FaultPayloads, f \in CreateFaults : Create(data, f)
    \/ \E material_id \in Ids, data \in FaultPayloads, f \in UpdateFaults \cup {"none"} :
            Update(material_id, data, f, "sql")
    \/ \E material_id \in Ids, f \in DeleteFaults \cup {"none"} : Delete(material_id, f)
    \/ \E kwargs \in Queries, f \in ListFaults \cup {"none"} : List(kwargs, f)

SpecFault == Init /\ [][NextFault]_vars

(***************************************************************************)
(* validate_payload called on its own: the payload is drawn at the start,  *)
(* the one step applies the function to it.                                *)
(***************************************************************************)
\* What a JSON body may carry under a key: every kind, the empty string, a
\* legal and an illegal selection value, or no key at all.
ValidateValues ==
    {Absent, Null, PyStr(""), PyStr("fabric"), PyStr("silk"), PyInt(7),
     PyFloat(7), PyBool(TRUE)}

ValidatePayloads == [FieldSet -> ValidateValues]

InitValidate ==
    /\ materials = <<>>
    /\ nextId = 1
    /\ req \in {[op |-> "validate", id |-> 0, data |-> data, kwargs |-> NoQuery,
                 fault |-> "none"] : data \in ValidatePayloads}
    /\ resp = Response(NoBody, 0)
    /\ deleted = {}
    /\ verdict = NoVerdict

\* is_valid, error_message = validate_payload(material_obj, data, type_specs)
Validate ==
    LET out == validate_payload(req.data)
    IN  /\ ~verdict.done
        /\ verdict' = [done |-> TRUE, ok |-> out.ok, msg |-> out.msg]
        /\ UNCHANGED <<materials, nextId, req, resp, deleted>>

NextValidate == Validate

SpecValidate == InitValidate /\ [][NextValidate]_vars

(***************************************************************************)
(* Properties.                                                             *)
(***************************************************************************)
IsNumber(v) == v.k \in {"int", "float"}

\* The text a submitted code is stored under.
CodeText(v) == IF v.k = "int" THEN IntToStr(v.n) ELSE v.s

\* Every key of the payload but `fl` carries a well-formed value.
FullBut(data, fl) == \A g \in FieldSet \ {fl} : data[g] \in GoodValues[g]

\* Every key of the payload but `fl` is absent or carries a well-formed value.
PartialBut(data, fl) ==
    \A g \in FieldSet \ {fl} : data[g] \in GoodValues[g] \cup {Absent}

\* The code of the payload, if it has one, is the code of no other material.
CodeFree(store, id, data) ==
    Has(data, "code") =>
        \A other \in DOMAIN store \ {id} : store[other].code # CodeText(data["code"])

Rejected(r, code) == ~r.raised /\ ~r.body.success /\ r.body.status_code = code

\* The request that led to the primed state is one C1 speaks of: a price below
\* the floor in a request that is valid in everything else.
C1Case(store, r) ==
    /\ Has(r.data, "buy_price")
    /\ IsNumber(r.data["buy_price"])
    /\ r.data["buy_price"].n < MinBuyPrice
    /\ \/ r.op = "create" /\ FullBut(r.data, "buy_price") /\ CodeFree(store, 0, r.data)
       \/ /\ r.op = "update"
          /\ r.id \in DOMAIN store
          /\ PartialBut(r.data, "buy_price")
          /\ CodeFree(store, r.id, r.data)

\* C1: a buy_price below 100 (zero and negative included) in an otherwise
\* valid payload makes create_material and update_material answer a failure
\* with status_code 400 and leaves the stored materials as they were.
C1_Claim ==
    [][C1Case(materials, req') => Rejected(resp', 400) /\ materials' = materials]_vars

\* The create payload omits exactly the field `fl`; the others are well-formed.
Omits(data, fl) == ~Has(data, fl) /\ FullBut(data, fl)

\* C2: a create_material payload that omits one required field, the others
\* being valid, gets a failure with status_code 400 whose message names the
\* missing field, and the number of stored materials does not change.
C2_MissingFieldRejected ==
    [][\A fl \in FieldSet :
          req'.op = "create" /\ Omits(req'.data, fl) =>
              /\ Rejected(resp', 400)
              /\ resp'.body.error.message = "missing fields in request: " \o fl
              /\ Cardinality(DOMAIN materials') = Cardinality(DOMAIN materials)
              /\ materials' = materials]_vars

C2_Witness ==
    /\ req.op = "create"
    /\ Omits(req.data, "supplier_id")
    /\ Rejected(resp, 400)
    /\ resp.body.error.message = "missing fields in request: supplier_id"
    /\ DOMAIN materials # {}

\* The value a field of a returned record compares as: a many2one comes back as
\* the list [id, name] and is compared by its first element.
Echo(row, fl) ==
    CASE fl = "name" -> PyStr(row.name)
      [] fl = "code" -> PyStr(row.code)
      [] fl = "type" -> PyStr(row.type)
      [] fl = "buy_price" -> PyFloat(row.buy_price)
      [] fl = "supplier_id" -> PyInt(row.supplier_id[1])

\* Python's == on two JSON values.
PyEq(a, b) ==
    \/ a.k = "str" /\ b.k = "str" /\ a.s = b.s
    \/ IsNumber(a) /\ IsNumber(b) /\ a.n = b.n

\* A create payload with all five fields, buy_price >= 100, a declared type, an
\* existing supplier and a code no material has.
C3Case(store, r) ==
    /\ r.op = "create"
    /\ Flaws(r.data) = {}
    /\ r.data["buy_price"].n >= MinBuyPrice
    /\ r.data["type"].s \in Selection
    /\ r.data["supplier_id"].n \in DOMAIN suppliers
    /\ CodeFree(store, 0, r.data)

\* The response is a 201 success carrying one record, whose id is new, and the
\* store gained exactly that material.
CreatedOne(store, after, r) ==
    /\ ~r.raised /\ r.body.success /\ r.body.status_code = 201
    /\ Len(r.body.data.rows) = 1
    /\ LET id == r.body.data.rows[1].id
       IN /\ id \in Nat
          /\ id \notin DOMAIN store
          /\ DOMAIN after = DOMAIN store \cup {id}
          /\ \A other \in DOMAIN store : after[other] = store[other]
          /\ r.body.data.rows[1] = read(after, id)

\* C3 as stated: such a create answers a success with status_code 201, adds
\* exactly one material, and the returned record has an integer id and echoes
\* every submitted field value unchanged.
C3_Claim ==
    [][C3Case(materials, req') =>
          /\ CreatedOne(materials, materials', resp')
          /\ \A fl \in FieldSet :
                PyEq(Echo(resp'.body.data.rows[1], fl), req'.data[fl])]_vars

\* C3 as amended: such a create answers a success with status_code 201, adds
\* exactly one material, and the returned record has an integer id and echoes
\* name, type, buy_price and supplier_id unchanged and code as its text (an
\* integer code comes back as its decimal string).
C3_CreateEchoesFields ==
    [][C3Case(materials, req') =>
          /\ CreatedOne(materials, materials', resp')
          /\ \A fl \in FieldSet \ {"code"} :
                PyEq(Echo(resp'.body.data.rows[1], fl), req'.data[fl])
          /\ Echo(resp'.body.data.rows[1], "code") = PyStr(CodeText(req'.data["code"]))]_vars

C3_Witness ==
    /\ req.op = "create"
    /\ Flaws(req.data) = {}
    /\ req.data["code"] = PyInt(5)
    /\ ~resp.raised /\ resp.body.success /\ resp.body.status_code = 201
    /\ resp.body.data.rows[1].code = "5"
    /\ Cardinality(DOMAIN materials) = 2

\* C4: once delete_material has succeeded for an id (200, 'Material deleted
\* successfully'), the id is not in the store and never comes back, and every
\* later delete_material or update_material on it answers 404 'Material not
\* found'.
C4_DeletedStaysGone ==
    [][/\ (req'.op = "delete" /\ ~resp'.raised /\ resp'.body.success) =>
              /\ resp'.body.status_code = 200
              /\ resp'.body.data.message = "Material deleted successfully"
              /\ req'.id \in deleted'
       /\ \A id \in deleted' : id \notin DOMAIN materials'
       /\ (req'.op \in {"delete", "update"} /\ req'.id \in deleted) =>
              /\ Rejected(resp', 404)
              /\ resp'.body.error.message = "Material not found"]_vars

\* A second delete of the same id, after another material was created.
C4_Witness ==
    /\ req.op = "delete"
    /\ req.id \in deleted
    /\ Rejected(resp, 404)
    /\ DOMAIN materials # {}

\* C5: update_material on an id that is not in the store answers a failure
\* with status_code 404 and the message 'Material not found', whatever the
\* payload (an empty or invalid one included), and alters no stored material.
C5_UpdateUnknownId ==
    [][(req'.op = "update" /\ req'.id \notin DOMAIN materials) =>
          /\ Rejected(resp', 404)
          /\ resp'.body.error.message = "Material not found"
          /\ materials' = materials]_vars

C5_Witness ==
    /\ req.op = "update"
    /\ req.id \notin DOMAIN materials
    /\ IsEmpty(req.data)
    /\ Rejected(resp, 404)
    /\ DOMAIN materials # {}

\* The ids of the records a list response carries.
Listed(r) == {r.body.data.rows[i].id : i \in 1..Len(r.body.data.rows)}

\* C6: list_materials with type=T returns exactly the stored materials whose
\* type is T; a query key outside the allow-list has no effect, so a request
\* with only such keys returns every stored material.
C6_ListFilter ==
    req.op = "list" /\ ~resp.raised =>
        LET wanted == {id \in DOMAIN materials :
                          Has(req.kwargs, "type") =>
                              materials[id].type = req.kwargs["type"].s}
        IN /\ resp.body.success /\ resp.body.status_code = 200
           /\ Listed(resp) = wanted
           /\ Len(resp.body.data.rows) = Cardinality(wanted)
           /\ \A i \in 1..Len(resp.body.data.rows) :
                 LET row == resp.body.data.rows[i]
                 IN /\ row.name = materials[row.id].name
                    /\ row.code = materials[row.id].code
                    /\ row.type = materials[row.id].type
                    /\ row.buy_price = materials[row.id].buy_price
                    /\ row.supplier_id[1] = materials[row.id].supplier_id

\* type=fabric and an unsupported key, over a fabric and a leather material.
C6_Witness ==
    /\ req.op = "list"
    /\ req.kwargs["type"] = PyStr("fabric")
    /\ req.kwargs["name"] = PyStr("B")
    /\ Len(resp.body.data.rows) = 1
    /\ \E a, b \in DOMAIN materials :
          materials[a].type = "fabric" /\ materials[b].type = "leather"

\* C7 as stated: in every response of the four endpoints the envelope's
\* status_code equals the HTTP status the transport reports.
C7_Claim ==
    (req.op # "none" /\ ~resp.raised) => resp.body.status_code = resp.http

\* C7 as amended: in every response of list and delete the envelope's
\* status_code equals the HTTP status; create and update answer through
\* JSON-RPC, whose HTTP status is 200 whatever the envelope's status_code.
C7_StatusMirrored ==
    /\ (req.op \in {"list", "delete"} /\ ~resp.raised) =>
            resp.body.status_code = resp.http
    /\ (req.op \in {"create", "update"} /\ ~resp.raised) =>
            resp.http = 200 /\ resp.body.status_code \in {200, 201, 400, 404, 500}

\* A failure path of delete.
C7_Witness ==
    /\ req.op = "delete"
    /\ ~resp.raised
    /\ resp.body.status_code = 500
    /\ resp.http = 500

\* A supplier_id that names no supplier, in a request valid in everything else.
C8Case(store, r) ==
    /\ Has(r.data, "supplier_id")
    /\ r.data["supplier_id"].k = "int"
    /\ r.data["supplier_id"].n \notin DOMAIN suppliers
    /\ \/ r.op = "create" /\ FullBut(r.data, "supplier_id") /\ CodeFree(store, 0, r.data)
       \/ /\ r.op = "update"
          /\ r.id \in DOMAIN store
          /\ PartialBut(r.data, "supplier_id")
          /\ CodeFree(store, r.id, r.data)

\* C8: a create_material or update_material payload whose supplier_id is not
\* the id of a supplier (0 included) is rejected with status_code 404 before
\* any write, and no material is created or altered.
C8_Claim ==
    [][C8Case(materials, req') => Rejected(resp', 404) /\ materials' = materials]_vars

\* A request that passes every check of its handler and whose code is the
\* code of another stored material.
C9Case(store, r) ==
    /\ Has(r.data, "code")
    /\ ~CodeFree(store, r.id, r.data)
    /\ \/ r.op = "create" /\ Flaws(r.data) = {}
       \/ r.op = "update" /\ r.id \in DOMAIN store /\ PartialBut(r.data, "code")

CodesUnique(store) ==
    \A a, b \in DOMAIN store : store[a].code = store[b].code => a = b

\* C9: such a request is rejected as a domain validation error, a failure with
\* status_code 400, the store is unchanged, and no two stored materials share
\* a code.
C9_Claim ==
    [][/\ C9Case(materials, req') => Rejected(resp', 400) /\ materials' = materials
       /\ CodesUnique(materials')]_vars

\* C10: a fault raised by a persistence call is caught inside the handler and
\* answered with a failure envelope; none leaves the handler.
C10_Claim == req.op # "none" => ~resp.raised

(***************************************************************************)
(* C11                                                                     *)
(***************************************************************************)
\* The key is present and its value is not null.
Carries(data, fl) == data[fl].k \notin {"absent", "null"}

\* The value's type is outside the types the field accepts (a JSON boolean
\* is an int to isinstance).
WrongType(data, fl) == ~IsInstance(data[fl], type_specs[fl].type)

\* A selection field carries a non-empty text that is not a legal value.
WrongChoice(data, fl) ==
    /\ type_specs[fl].is_selection
    /\ data[fl].k = "str"
    /\ data[fl].s # ""
    /\ data[fl].s \notin Selection

Offends(data, fl) ==
    Carries(data, fl) /\ (WrongType(data, fl) \/ WrongChoice(data, fl))

\* Positions, in spec order, of the fields that offend.
Offenders(data) == {i \in 1..Len(Fields) : Offends(data, Fields[i])}

FirstOffender(data) ==
    Fields[CHOOSE i \in Offenders(data) : \A j \in Offenders(data) : i <= j]

\* The message that names field fl for the offence it commits.
OffenceMessage(data, fl) ==
    IF WrongType(data, fl)
    THEN "Field '" \o fl \o "' must be of type '" \o type_specs[fl].type_repr \o "'"
    ELSE "Invalid value '" \o data[fl].s \o "' for field '" \o fl
         \o "' in model 'material.material'"

\* C11: validate_payload fails exactly when some field of the spec is present
\* with a non-null value that is of a type the field does not accept or, for
\* a selection field with a non-empty value, is not a legal value; the one
\* message of a failure names the first such field in spec order; a payload
\* whose fields are all absent or null passes.
C11_ValidatePayload ==
    verdict.done =>
        LET data == req.data
        IN  /\ ~verdict.ok <=> Offenders(data) # {}
            /\ ~verdict.ok =>
                   verdict.msg = OffenceMessage(data, FirstOffender(data))
            /\ verdict.ok => verdict.msg = "None"
            /\ (\A fl \in FieldSet : ~Carries(data, fl)) => verdict.ok

\* Two fields offend, behind an absent and a null one: the message names the
\* earlier of the two, the selection field.
C11_Witness ==
    /\ verdict.done
    /\ ~verdict.ok
    /\ req.data["name"] = Absent
    /\ req.data["code"] = Null
    /\ Offenders(req.data) = {3, 5}
    /\ WrongChoice(req.data, "type")
    /\ verdict.msg = "Invalid value 'silk' for field 'type' in model 'material.material'"


====
